---- MODULE Spec2Model ----
(***************************************************************************)
(* Ingestion + sentiment-enrichment pipeline of graph_project.             *)
(*                                                                         *)
(*   app/services/sentiment_workflow.py   process_missing_sentiments       *)
(*   app/services/huggingface_service.py  HuggingFaceService               *)
(*   app/routers/pipeline.py              dataset_to_graph                 *)
(*   app/services/neo4j_service.py        the graph store                  *)
(*                                                                         *)
(* Conventions.                                                            *)
(*  - A nullable value is a sequence: Null is <<>>, the value v is <<v>>.  *)
(*  - Numbers that are floats in the program are fixed-point tenths:       *)
(*    0.9 is 9, 1.0 is 10, 0.5 is 5.                                       *)
(*  - A timestamp is <<day, time>>, a calendar date string is <<day>>;     *)
(*    strings of dates are compared as the store compares strings, i.e.    *)
(*    lexicographically, a proper prefix being the smaller one.            *)
(*  - sha256 is modelled as an injective pairing of its two inputs.        *)
(***************************************************************************)
EXTENDS Integers, Sequences, FiniteSets, TLC

\* ------------------------------------------------------------------ bounds
\* a stub classifier may answer up to this many results more than asked
MaxExtra == 1
\* largest row limit a caller passes
MaxLimit == 2
\* most PRICE_ON edges between one Stock and one TradingDay
MaxEdges == 2
\* most label/score items in one answer to POST /analyze
MaxItems == 2

\* ------------------------------------------------------------- basic values
Null == <<>>
Val(v) == <<v>>
IsNull(x) == x = Null
Get(x) == x[1]

Min(a, b) == IF a < b THEN a ELSE b
Max(a, b) == IF a > b THEN a ELSE b

\* float 1.0 and 0.0; the threshold 0.5 of _process_single_result
One == 10
Zero == 0
Threshold == 5
\* float('nan'), what pandas yields for an empty cell
NaN == 0 - 1

Range(s) == {s[k] : k \in 1..Len(s)}

RECURSIVE SeqsUpTo(_, _)
\* all sequences over S of length at most n
SeqsUpTo(S, n) ==
    IF n = 0 THEN {<<>>}
    ELSE LET shorter == SeqsUpTo(S, n - 1)
         IN shorter \cup {Append(s, x) : s \in {t \in shorter : Len(t) = n - 1}, x \in S}

\* all orders in which the store may return the rows of a set
Orderings(S) ==
    {s \in [1..Cardinality(S) -> S] : \A a, b \in 1..Cardinality(S) : a # b => s[a] # s[b]}

\* lexicographic comparison of two strings given as sequences of numbers
RECURSIVE StrLeq(_, _)
StrLeq(a, b) ==
    IF a = <<>> THEN TRUE
    ELSE IF b = <<>> THEN FALSE
    ELSE IF Head(a) < Head(b) THEN TRUE
    ELSE IF Head(a) > Head(b) THEN FALSE
    ELSE StrLeq(Tail(a), Tail(b))

\* ------------------------------------------------- the remote classifier
\* str.lower() on the labels the remote model answers
Lower(l) == IF l \in {"Positive", "POSITIVE"} THEN "positive" ELSE l

\* what one remote text_classification call on one text can answer:
\* a list of label/score items, or something that is not a list
RemoteLists ==
    { <<[label |-> "negative", score |-> 1], [label |-> "positive", score |-> 9]>>,
      <<[label |-> "Positive", score |-> 4], [label |-> "neutral", score |-> 3]>>,
      <<>> }
NotAList == [isList |-> FALSE, items |-> <<>>]
AList(items) == [isList |-> TRUE, items |-> items]

\* sorted(result, key=score, reverse=True)[0]: the first item of highest score
TopResult(items) ==
    LET best == CHOOSE k \in 1..Len(items) :
                    /\ \A m \in 1..Len(items) : items[m].score <= items[k].score
                    /\ \A m \in 1..(k - 1) : items[m].score < items[k].score
    IN items[best]

FailureResult == [sentiment |-> Zero, confidence |-> Zero]

\* the same with a positive label at exactly 0.5 taken as 0
ProcessSingleResultStrict(result) ==
    IF result.isList /\ Len(result.items) > 0
    THEN LET top_result == TopResult(result.items)
             label == Lower(top_result.label)
             confidence == top_result.score
             sentiment == IF label = "positive" THEN One ELSE Zero
         IN [sentiment |-> IF sentiment = One /\ confidence <= Threshold THEN Zero ELSE sentiment,
             confidence |-> confidence]
    ELSE FailureResult

\* HuggingFaceService._process_single_result
ProcessSingleResult(result) ==
    IF result.isList /\ Len(result.items) > 0
    THEN LET top_result == TopResult(result.items)
             label == Lower(top_result.label)
             confidence == top_result.score
             sentiment == IF label = "positive" THEN One ELSE Zero
         IN [sentiment |-> IF sentiment = One /\ confidence < Threshold THEN Zero ELSE sentiment,
             confidence |-> confidence]
    ELSE FailureResult

\* outcome of one remote call on one text: it raises, or it answers
Raised == [raised |-> TRUE, answer |-> NotAList]
Answered(a) == [raised |-> FALSE, answer |-> a]
RemoteItemOutcomes == {Raised} \cup {Answered(a) : a \in {AList(l) : l \in RemoteLists} \cup {NotAList}}

\* HuggingFaceService.analyze_sentiment: a remote error is logged and
\* answered as 0 / 0.0, the method itself never raises
AnalyzeSentiment(remote) ==
    IF remote.raised THEN FailureResult ELSE ProcessSingleResult(remote.answer)

\* outcome of the remote call on a list of texts
\*   kind "raise"  any exception
\*   kind "single" an answer that is not a list
\*   kind "lists"  a list whose items are lists of label/score items
\*   kind "dicts"  a list of label/score items
\*   kind "other"  a non-empty list of anything else
\* HuggingFaceService.batch_analyze_sentiment, texts non-empty;
\* items: what the remote batch call answered, each: what a single call on
\* the k-th text would answer
BatchAnalyzeSentiment(texts, kind, items, each) ==
    LET individually == [k \in 1..Len(texts) |-> AnalyzeSentiment(each[k])]
    IN IF kind \in {"lists", "dicts"} /\ Len(items) = 0 THEN <<>>
       ELSE IF kind = "lists"
            THEN [k \in 1..Len(items) |-> ProcessSingleResult(AList(items[k]))]
       ELSE IF kind = "dicts"
            THEN [k \in 1..Len(items) |-> ProcessSingleResult(AList(<<items[k]>>))]
       ELSE individually

\* ------------------------------------------------------- the graph store
Tickers == {"X", "Y"}

\* sha256((text + str(date)).encode()).hexdigest()
Sha256(text, date) == <<text, date>>

\* a Tweet node created by another writer, without text or date
LegacyId == <<"legacy", <<0, 0>>>>
LegacyTweet == [text |-> Null, date |-> Null, sentiment |-> Null, confidence |-> Null]

EmptyGraph ==
    [tweets |-> <<>>, stocks |-> {}, days |-> {}, price_on |-> <<>>,
     discusses |-> {}, on_date |-> {}]

TweetIds(g) == DOMAIN g.tweets

\* the fetch query without its condition on t.sentiment
FetchMatchesAll(g, params) ==
    {id \in TweetIds(g) :
        /\ IsNull(params.stock) \/ <<id, Get(params.stock)>> \in g.discusses
        /\ IsNull(params.start_date)
              \/ (~IsNull(g.tweets[id].date) /\ StrLeq(Get(params.start_date), Get(g.tweets[id].date)))
        /\ IsNull(params.end_date)
              \/ (~IsNull(g.tweets[id].date) /\ StrLeq(Get(g.tweets[id].date), Get(params.end_date)))}

\* the fetch query of process_missing_sentiments:
\*   MATCH (t:Tweet)[-[:DISCUSSES]->(s:Stock {ticker: $stock})]
\*   WHERE (t.sentiment IS NULL OR $overwrite = true)
\*         [AND t.date >= $start_date] [AND t.date <= $end_date]
\*   RETURN t.id AS id, t.text AS text
\* a comparison with a null date is null, and the row is dropped
FetchMatches(g, params) ==
    {id \in TweetIds(g) :
        /\ IsNull(params.stock) \/ <<id, Get(params.stock)>> \in g.discusses
        /\ IsNull(g.tweets[id].sentiment) \/ params.overwrite
        /\ IsNull(params.start_date)
              \/ (~IsNull(g.tweets[id].date) /\ StrLeq(Get(params.start_date), Get(g.tweets[id].date)))
        /\ IsNull(params.end_date)
              \/ (~IsNull(g.tweets[id].date) /\ StrLeq(Get(g.tweets[id].date), Get(params.end_date)))}

\* the row lists the fetch query may return: any order, LIMIT keeps any
\* $limit of them
FetchResults(g, params) ==
    LET ids == FetchMatches(g, params)
        kept == IF IsNull(params.limit) THEN {ids}
                ELSE {S \in SUBSET ids : Cardinality(S) = Min(Get(params.limit), Cardinality(ids))}
    IN UNION {{[k \in 1..Cardinality(S) |-> [id |-> o[k], text |-> g.tweets[o[k]].text]] :
                  o \in Orderings(S)} : S \in kept}

\* MATCH (t:Tweet {id: update.id}) SET t.sentiment = ..., t.confidence = ...
\* MERGE instead of MATCH: a Tweet that does not exist is created
SetSentimentMerge(g, upd) ==
    [g EXCEPT !.tweets =
        (upd.id :> [(IF upd.id \in TweetIds(g) THEN g.tweets[upd.id] ELSE LegacyTweet)
                       EXCEPT !.sentiment = Val(upd.sentiment),
                              !.confidence = Val(upd.confidence)]) @@ @]

SetSentiment(g, upd) ==
    IF upd.id \in TweetIds(g)
    THEN [g EXCEPT !.tweets[upd.id].sentiment = Val(upd.sentiment),
                   !.tweets[upd.id].confidence = Val(upd.confidence)]
    ELSE g

RECURSIVE UpdateSentiments(_, _)
\* UNWIND $updates AS update MATCH ... SET ...
UpdateSentiments(g, updates) ==
    IF updates = <<>> THEN g
    ELSE UpdateSentiments(SetSentiment(g, Head(updates)), Tail(updates))

\* RETURN count(t) AS updated
CountUpdated(g, updates) ==
    Cardinality({k \in 1..Len(updates) : updates[k].id \in TweetIds(g)})

\* MATCH (n) DETACH DELETE n
DetachDeleteAll(g) == EmptyGraph

\* ------------------------------------------------------ the source files
\* a Date cell as written in the file, and pd.to_datetime(errors="coerce")
\* followed by tz_localize(None); NaT is Null
DateCell(fmt, d, t) == [fmt |-> fmt, day |-> d, time |-> t]
ToDatetimeCell(cell) ==
    IF cell.fmt = "bad" THEN Null ELSE Val(<<cell.day, cell.time>>)

\* a date string of a request: "" is <<>>, the placeholder "string" is
\* StrPlaceholder, "YYYY-MM-DD" is <<d>>, "YYYY-MM-DDTHH:MM:SS" is <<d, t>>
StrEmpty == <<>>
StrPlaceholder == <<0 - 1>>
ToDatetime(str) == IF Len(str) = 1 THEN <<str[1], 0>> ELSE str

\* Timestamp.isoformat(), Timestamp.strftime("%Y-%m-%d"), str(Timestamp)
IsoFormat(ts) == ts
DateOnly(ts) == <<ts[1]>>
StrOf(ts) == ts

\* pd.to_datetime("2015-01-01") and pd.to_datetime("2024-01-01")
DefaultStart == <<0, 0>>
DefaultEnd == <<9, 0>>

\* the times of day that occur: 00:00:00, 12:00:00, 23:59:59
Midnight == 0
Noon == 1
EndOfDay == 2

\* stock_tweets.csv: the columns present and the rows
SocialRows ==
    << [Date |-> DateCell("date", 1, Midnight), Tweet |-> "a", Stock |-> "X",
        Sentiment |-> Val(9), Confidence |-> Val(8)],
       [Date |-> DateCell("datetime", 2, Noon), Tweet |-> "b", Stock |-> "X",
        Sentiment |-> Null, Confidence |-> Null],
       [Date |-> DateCell("bad", 0, 0), Tweet |-> "a", Stock |-> "Y",
        Sentiment |-> Val(9), Confidence |-> Null] >>
\* the first post again, in a file that writes its timestamps the other way
SocialRowsReformatted ==
    << [SocialRows[1] EXCEPT !.Date = DateCell("datetime", 1, Midnight)] >>
SocialFiles ==
    { [cols |-> {}, rows |-> SocialRows],
      [cols |-> {"Sentiment"}, rows |-> SocialRows],
      [cols |-> {"Sentiment", "Confidence"}, rows |-> SocialRows],
      [cols |-> {"Sentiment"}, rows |-> SocialRowsReformatted] }

\* the text of a Date cell as it stands in the file: "YYYY-MM-DD" is <<d>>,
\* "YYYY-MM-DD HH:MM:SS+00:00" is <<d, t, 0>>, anything else is <<-1>>
RawStr(cell) ==
    IF cell.fmt = "date" THEN <<cell.day>>
    ELSE IF cell.fmt = "datetime" THEN <<cell.day, cell.time, 0>>
    ELSE <<0 - 1>>

\* stock_yfinance_data.csv
StockRows ==
    << [Date |-> DateCell("date", 1, Midnight), Stock |-> "X",
        Open |-> 10, High |-> 12, Low |-> 9, Close |-> 11, Volume |-> 100],
       [Date |-> DateCell("date", 2, Midnight), Stock |-> "X",
        Open |-> 0, High |-> 5, Low |-> 1, Close |-> 3, Volume |-> 7],
       [Date |-> DateCell("bad", 0, 0), Stock |-> "X",
        Open |-> 4, High |-> 6, Low |-> 2, Close |-> 5, Volume |-> 9] >>

\* the same file after its first row was revised
StockRowsRevised ==
    [StockRows EXCEPT ![1].Close = 12, ![1].Volume = 200]
StockFiles == {StockRows, StockRowsRevised}

\* the same mask with chunk["Date"] < end_date
InWindowBeforeEnd(row, req_stock, start_date, end_date) ==
    LET date == ToDatetimeCell(row.Date)
    IN /\ ~IsNull(date)
       /\ StrLeq(start_date, Get(date))
       /\ StrLeq(Get(date), end_date) /\ Get(date) # end_date
       /\ row.Stock = req_stock

\* chunk["Date"] >= start_date & chunk["Date"] <= end_date & Stock Name == stock
\* (a comparison with NaT is False)
InWindow(row, req_stock, start_date, end_date) ==
    LET date == ToDatetimeCell(row.Date)
    IN /\ ~IsNull(date)
       /\ StrLeq(start_date, Get(date))
       /\ StrLeq(Get(date), end_date)
       /\ row.Stock = req_stock

\* the same dict with the id hashed over the Date cell as read, unparsed
TweetRowRawId(row, cols) ==
    LET date == Get(ToDatetimeCell(row.Date))
        has == "Sentiment" \in cols /\ ~IsNull(row.Sentiment)
    IN [ticker |-> row.Stock,
        tweet_id |-> Sha256(row.Tweet, RawStr(row.Date)),
        text |-> row.Tweet,
        date |-> IsoFormat(date),
        date_only |-> DateOnly(date),
        sentiment |-> IF has THEN row.Sentiment ELSE Null,
        confidence |-> IF has /\ "Confidence" \in cols
                       THEN (IF IsNull(row.Confidence) THEN Val(NaN) ELSE row.Confidence)
                       ELSE Null]

\* the dict dataset_to_graph builds from one row of the tweet file
TweetRow(row, cols) ==
    LET date == Get(ToDatetimeCell(row.Date))
        has == "Sentiment" \in cols /\ ~IsNull(row.Sentiment)
    IN [ticker |-> row.Stock,
        tweet_id |-> Sha256(row.Tweet, StrOf(date)),
        text |-> row.Tweet,
        date |-> IsoFormat(date),
        date_only |-> DateOnly(date),
        sentiment |-> IF has THEN row.Sentiment ELSE Null,
        confidence |-> IF has /\ "Confidence" \in cols
                       THEN (IF IsNull(row.Confidence) THEN Val(NaN) ELSE row.Confidence)
                       ELSE Null]

\* the ratio without the test on open
RatioUnguarded(a, b) == <<a, b>>

\* a ratio a / b of two floats, kept as the pair of its terms
Ratio(a, b) == IF b # 0 THEN <<a, b>> ELSE <<0, 1>>

\* the dict dataset_to_graph builds from one row of the price file
PriceRow(row) ==
    [ticker |-> row.Stock,
     date |-> DateOnly(Get(ToDatetimeCell(row.Date))),
     open |-> row.Open, high |-> row.High, low |-> row.Low, close |-> row.Close,
     volume |-> row.Volume,
     daily_change |-> Ratio(row.Close - row.Open, row.Open),
     volatility |-> Ratio(row.High - row.Low, row.Open)]

\* rows pos+1 .. pos+chunk_size of a file
Chunk(rows, pos, chunk_size) == SubSeq(rows, pos + 1, Min(pos + chunk_size, Len(rows)))

\* for _, row in filtered.iterrows(): ... rows.append({...})
FilteredRows(chunk, req_stock, start_date, end_date) ==
    SelectSeq(chunk, LAMBDA row : InWindow(row, req_stock, start_date, end_date))

\* tweet_cypher with CREATE (t:Tweet {id: ...}) in place of the MERGE: every
\* row makes a node of its own
MergeTweetCreate(g, row) ==
    [g EXCEPT
        !.stocks = @ \cup {row.ticker},
        !.tweets = (<<row.tweet_id, Cardinality(DOMAIN @)>> :>
                        [text |-> Val(row.text), date |-> Val(row.date),
                         sentiment |-> row.sentiment,
                         confidence |-> row.confidence]) @@ @,
        !.discusses = @ \cup {<<row.tweet_id, row.ticker>>},
        !.days = @ \cup {row.date_only},
        !.on_date = @ \cup {<<row.tweet_id, row.date_only>>}]

\* tweet_cypher for one row: MERGE the Stock, MERGE the Tweet, SET its four
\* properties (a null removes the property), MERGE the edges and the day
MergeTweet(g, row) ==
    [g EXCEPT
        !.stocks = @ \cup {row.ticker},
        !.tweets = (row.tweet_id :> [text |-> Val(row.text), date |-> Val(row.date),
                                     sentiment |-> row.sentiment,
                                     confidence |-> row.confidence]) @@ @,
        !.discusses = @ \cup {<<row.tweet_id, row.ticker>>},
        !.days = @ \cup {row.date_only},
        !.on_date = @ \cup {<<row.tweet_id, row.date_only>>}]

RECURSIVE TweetUpsert(_, _)
\* UNWIND $rows AS row ... (tweet_cypher)
TweetUpsert(g, rows) ==
    IF rows = <<>> THEN g ELSE TweetUpsert(MergeTweet(g, Head(rows)), Tail(rows))

\* the PRICE_ON edges from a Stock to a TradingDay, in creation order
PriceEdges(g, ticker, date) ==
    IF <<ticker, date>> \in DOMAIN g.price_on THEN g.price_on[<<ticker, date>>] ELSE <<>>

\* stock_cypher for one row: MERGE Stock and TradingDay, MERGE the PRICE_ON
\* edge on its end nodes alone (every edge between them matches, one is
\* created when there is none), SET the seven properties of what matched
MergePrice(g, row) ==
    LET bar == [open |-> Val(row.open), high |-> Val(row.high), low |-> Val(row.low),
                close |-> Val(row.close), volume |-> Val(row.volume),
                daily_change |-> Val(row.daily_change),
                volatility |-> Val(row.volatility)]
        matched == PriceEdges(g, row.ticker, row.date)
    IN [g EXCEPT
        !.stocks = @ \cup {row.ticker},
        !.days = @ \cup {row.date},
        !.price_on = (<<row.ticker, row.date>> :>
                         (IF matched = <<>> THEN <<bar>>
                          ELSE [k \in 1..Len(matched) |-> bar])) @@ @]

RECURSIVE StockUpsert(_, _)
\* UNWIND $rows AS row ... (stock_cypher)
StockUpsert(g, rows) ==
    IF rows = <<>> THEN g ELSE StockUpsert(MergePrice(g, Head(rows)), Tail(rows))

\* the cypher of sync_stocks for one row: MERGE Stock and TradingDay, MERGE
\* the PRICE_ON edge on its end nodes and on close and volume: an edge
\* between them with other values does not match, and a new one is created
MergeClose(g, row) ==
    LET bar == [open |-> Null, high |-> Null, low |-> Null,
                close |-> Val(row.close), volume |-> Val(row.volume),
                daily_change |-> Null, volatility |-> Null]
        edges == PriceEdges(g, row.ticker, row.date)
        matched == \E k \in 1..Len(edges) :
                       edges[k].close = bar.close /\ edges[k].volume = bar.volume
    IN [g EXCEPT
        !.stocks = @ \cup {row.ticker},
        !.days = @ \cup {row.date},
        !.price_on = (<<row.ticker, row.date>> :>
                         (IF matched THEN edges ELSE Append(edges, bar))) @@ @]

RECURSIVE SyncUpsert(_, _)
\* UNWIND $rows AS row ... (the cypher of sync_stocks)
SyncUpsert(g, rows) ==
    IF rows = <<>> THEN g ELSE SyncUpsert(MergeClose(g, Head(rows)), Tail(rows))

\* ------------------------------------------------------------- the state
VARIABLES
    graph,            \* the graph store: nodes and edges
    wf,               \* the run of process_missing_sentiments: its locals
    log,              \* what that run did so far, post by post (observation)
    pl,               \* the run of dataset_to_graph: its locals
    hf_token,         \* os.getenv("HF_TOKEN")
    default_service,  \* huggingface_service._default_service is not None
    stocks_csv,       \* the rows of the price file on disk
    sync,             \* the last run of sync_stocks: its rows and its response
    imported,         \* the last run of import_social: its rows and its response
    enriched,         \* ids of the Tweets whose pair a workflow run wrote (observation)
    analysis          \* the last call of POST /analyze: the remote answer and the response

vars == <<graph, wf, log, pl, hf_token, default_service, stocks_csv, sync, imported,
          enriched, analysis>>

\* ------------------------------------------- process_missing_sentiments
\* the classifier objects get_hf_service can hand to the workflow: the
\* HuggingFaceService, or a stand-in whose methods may raise
Services == {"hf", "stub"}
StubResults == {[sentiment |-> One, confidence |-> 9], [sentiment |-> Zero, confidence |-> 4]}

BatchSizes == {0 - 5, 0, 1, 2, 101}
\* the filters a caller passes: none, a ticker, a date range, a row limit
Filters ==
    {[stock |-> Null, start_date |-> Null, end_date |-> Null, limit |-> Null],
     [stock |-> Val("X"), start_date |-> Null, end_date |-> Null, limit |-> Null],
     [stock |-> Null, start_date |-> Val(<<2>>), end_date |-> Val(<<2>>), limit |-> Null],
     [stock |-> Val(""), start_date |-> Val(StrEmpty), end_date |-> Val(<<1, Noon>>),
      limit |-> Val(0)],
     [stock |-> Null, start_date |-> Null, end_date |-> Null, limit |-> Val(MaxLimit)]}
ApiKeys == {Null, Val(""), Val("key")}
Args(filter, batch_size, overwrite, api_key) ==
    [stock |-> filter.stock, start_date |-> filter.start_date,
     end_date |-> filter.end_date, limit |-> filter.limit,
     batch_size |-> batch_size, overwrite |-> overwrite, api_key |-> api_key]
WorkflowArgs ==
    {Args(f, b, o, Null) : f \in Filters, b \in BatchSizes, o \in BOOLEAN}
    \cup {Args(f, 100, FALSE, a) : f \in Filters, a \in ApiKeys}

\* HuggingFaceService.__init__, lines 17-18: the key the client is built with
ResolveKey(api_key, env) ==
    IF IsNull(api_key) \/ api_key = Val("string") \/ api_key = Val("")
    THEN env ELSE api_key

\* the client is built whatever the key
InitRaisesNever(api_key, env) == FALSE

\* HuggingFaceService.__init__ raises ValueError when no token is found
InitRaises(api_key, env) ==
    LET key == ResolveKey(api_key, env)
    IN IsNull(key) \/ key = Val("")

\* get_hf_service(api_key) raises
GetHfServiceRaises(api_key, env, cached) ==
    IF ~IsNull(api_key) THEN InitRaises(api_key, env)
    ELSE ~cached /\ InitRaises(Null, env)

\* every instance built becomes the cached default
GetHfServiceCachesAll(api_key, cached) ==
    IF IsNull(api_key) /\ cached
    THEN [from |-> "cache", assigned |-> FALSE, cached |-> TRUE]
    ELSE [from |-> "built", assigned |-> TRUE, cached |-> TRUE]

\* get_hf_service, lines 181-187, when the constructor does not raise: where
\* the instance it returns comes from, whether it assigns _default_service,
\* and whether _default_service is set afterwards
GetHfService(api_key, cached) ==
    IF ~IsNull(api_key) THEN [from |-> "built", assigned |-> FALSE, cached |-> cached]
    ELSE IF ~cached THEN [from |-> "built", assigned |-> TRUE, cached |-> TRUE]
    ELSE [from |-> "cache", assigned |-> FALSE, cached |-> TRUE]

\* what a call of get_hf_service did, as the run observes it
NotHanded == [from |-> "none", assigned |-> FALSE]
Handed(service, api_key, cached, raised) ==
    IF service # "hf" THEN NotHanded
    ELSE IF raised THEN [from |-> "raised", assigned |-> FALSE]
    ELSE [from |-> GetHfService(api_key, cached).from,
          assigned |-> GetHfService(api_key, cached).assigned]

\* _default_service after the call
CacheAfter(service, api_key, cached) ==
    IF service = "hf" THEN GetHfService(api_key, cached).cached ELSE cached

\* an end date without a time part is widened to the end of that day
WidenEndDate(end_date) ==
    IF Len(end_date) = 1 THEN <<end_date[1], EndOfDay>> ELSE end_date

\* the parameters of the fetch query; a falsy argument adds no filter
BuildParams(args) ==
    [overwrite |-> args.overwrite,
     stock |-> IF ~IsNull(args.stock) /\ args.stock # Val("") THEN args.stock ELSE Null,
     start_date |-> IF ~IsNull(args.start_date) /\ args.start_date # Val(StrEmpty)
                    THEN args.start_date ELSE Null,
     end_date |-> IF ~IsNull(args.end_date) /\ args.end_date # Val(StrEmpty)
                  THEN Val(WidenEndDate(Get(args.end_date))) ELSE Null,
     limit |-> IF ~IsNull(args.limit) /\ args.limit # Val(0) THEN args.limit ELSE Null]

\* the batch size is kept from falling below 1 only
ValidBatchSizeUncapped(batch_size) == Max(1, batch_size)

\* valid_batch_size = max(1, min(batch_size, 100))
ValidBatchSize(batch_size) == Max(1, Min(batch_size, 100))

NoResult == [status |-> "none", tweets_processed |-> 0, tweets_updated |-> 0, errors |-> 0]
ErrorResult == [status |-> "error", tweets_processed |-> 0, tweets_updated |-> 0, errors |-> 0]

IdleWf ==
    [pc |-> "idle", caller |-> "none", service |-> "hf", tweets |-> <<>>,
     valid_batch_size |-> 1, i |-> 0, k |-> 0, tweet_ids |-> <<>>, batch_updates |-> <<>>,
     tweets_processed |-> 0, tweets_updated |-> 0, errors |-> 0, result |-> NoResult]

\* what a caller passed, as the run observes it: the three filters, the
\* batch size, and whether api_key was other than None
NoCall ==
    [stock |-> Null, start_date |-> Null, end_date |-> Null, batch_size |-> 0,
     keyed |-> FALSE]
CallOf(args) ==
    [stock |-> args.stock, start_date |-> args.start_date, end_date |-> args.end_date,
     batch_size |-> args.batch_size, keyed |-> ~IsNull(args.api_key)]

\* the stock and date parameters of a fetch query
NoParams == [stock |-> Null, start_date |-> Null, end_date |-> Null]
SentParams(params) ==
    [stock |-> params.stock, start_date |-> params.start_date, end_date |-> params.end_date]

\* nothing observed yet about a run over n fetched posts
EmptyLog(n) ==
    [errs |-> [x \in 1..n |-> 0],        \* times the post was added to errors
     procs |-> [x \in 1..n |-> 0],       \* times it was added to tweets_processed
     sent |-> [x \in 1..n |-> 0],        \* times its text went to the classifier
     singles |-> [x \in 1..n |-> 0],     \* analyze_sentiment calls of the workflow on it
     writes |-> [x \in 1..n |-> 0],      \* store updates carrying it that were applied
     attempts |-> [x \in 1..n |-> 0],    \* store updates carrying it, applied or raised
     remote_failed |-> {},               \* posts whose single remote call errored
     item_raised |-> {},                 \* posts on which analyze_sentiment raised
     misaligned |-> {},                  \* posts of a batch answered with a misaligned list
     batch_raised |-> {},                \* posts of a batch whose batch call raised
     store_raised |-> {},                \* posts carried by a store update that raised
     batch_calls |-> 0,                  \* batch_analyze_sentiment calls
     fetch_calls |-> 0,                  \* fetch queries issued
     init_raised |-> FALSE,              \* get_hf_service raised
     fetch_raised |-> FALSE,             \* the fetch query raised
     no_credential |-> FALSE,            \* the real service was asked for, without any key
     selected_scored |-> {},             \* posts fetched with a sentiment, overwrite being false
     nothing_missing |-> FALSE,          \* overwrite false and every post the filters match scored
     call |-> NoCall,                    \* the arguments of the call, until the loop starts
     params |-> NoParams,                \* the parameters of the fetch query, until then
     results |-> <<>>,                   \* what the batch call of the current batch returned
     handed |-> NotHanded]               \* what get_hf_service did, until the loop starts

\* the posts of the batch that starts after offset i
BatchOf(w) == SubSeq(w.tweets, w.i + 1, Min(w.i + w.valid_batch_size, Len(w.tweets)))
BatchIndexes(w) == (w.i + 1)..Min(w.i + w.valid_batch_size, Len(w.tweets))

\* not tweet_text
EmptyText(text) == IsNull(text) \/ text = Val("")

Bump(f, S) == [x \in DOMAIN f |-> IF x \in S THEN f[x] + 1 ELSE f[x]]

\* whether get_hf_service raises: decided by the token for the real
\* service, either way for a stand-in
GetServiceOutcomes(service, api_key) ==
    IF service = "stub" THEN BOOLEAN
    ELSE {GetHfServiceRaises(api_key, hf_token, default_service)}

\* the exception goes up to the caller
FailedRaises(caller, service) ==
    [IdleWf EXCEPT !.pc = "done", !.caller = caller, !.service = service,
                   !.result = [ErrorResult EXCEPT !.status = "exception"]]

\* return {"status": "error", ..., "tweets_processed": 0}
Failed(caller, service) ==
    [IdleWf EXCEPT !.pc = "done", !.caller = caller, !.service = service,
                   !.result = ErrorResult]

\* after the fetch: the early return on no rows, or the start of the loop
Fetched(caller, service, batch_size, tweets) ==
    IF tweets = <<>>
    THEN [IdleWf EXCEPT !.pc = "done", !.caller = caller, !.service = service,
                        !.result = [NoResult EXCEPT !.status = "success"]]
    ELSE [IdleWf EXCEPT !.pc = "batch", !.caller = caller, !.service = service,
                        !.tweets = tweets,
                        !.valid_batch_size = ValidBatchSize(batch_size)]

\* get the classifier, build and run the fetch query
RunWorkflow(caller, args, service) ==
    LET params == BuildParams(args)
        key == ResolveKey(args.api_key, hf_token)
        no_credential == /\ service = "hf"
                         /\ IsNull(key) \/ key = Val("")
                         /\ ~(IsNull(args.api_key) /\ default_service)
        matching == FetchMatches(graph, [params EXCEPT !.overwrite = TRUE])
        seen(n) == [EmptyLog(n) EXCEPT
                       !.no_credential = no_credential,
                       !.call = CallOf(args),
                       !.handed = Handed(service, args.api_key, default_service, FALSE)]
    IN
    \E init_raises \in GetServiceOutcomes(service, args.api_key) :
        IF init_raises
        THEN /\ wf' = Failed(caller, service)
             /\ log' = [seen(0) EXCEPT
                          !.init_raised = TRUE,
                          !.handed = Handed(service, args.api_key, default_service, TRUE)]
             /\ UNCHANGED default_service
        ELSE /\ default_service' = CacheAfter(service, args.api_key, default_service)
             /\ \/ /\ wf' = Failed(caller, service)
                   /\ log' = [seen(0) EXCEPT !.fetch_calls = 1, !.fetch_raised = TRUE,
                                              !.params = SentParams(params)]
                \/ \E tweets \in FetchResults(graph, params) :
                   /\ wf' = Fetched(caller, service, args.batch_size, tweets)
                   /\ log' = [seen(Len(tweets)) EXCEPT
                        !.fetch_calls = 1,
                        !.params = SentParams(params),
                        !.selected_scored =
                            {x \in 1..Len(tweets) :
                                ~args.overwrite /\ ~IsNull(graph.tweets[tweets[x].id].sentiment)},
                        !.nothing_missing =
                            /\ ~args.overwrite
                            /\ \A id \in matching : ~IsNull(graph.tweets[id].sentiment)]

\* a caller other than the pipeline invokes process_missing_sentiments
StartWorkflow ==
    /\ wf.pc = "idle"
    /\ pl.pc = "idle"
    /\ \E args \in WorkflowArgs, service \in Services :
           RunWorkflow("direct", args, service)
    /\ UNCHANGED <<graph, pl, hf_token, stocks_csv, imported, sync, enriched, analysis>>

\* lines 106-125: the head of one iteration of the batch loop; posts without
\* text are counted as errors and left out
ScanBatch ==
    /\ wf.pc = "batch"
    /\ wf.i < Len(wf.tweets)
    /\ LET empties == {x \in BatchIndexes(wf) : EmptyText(wf.tweets[x].text)}
           tweet_ids == SelectSeq([x \in 1..Len(BatchOf(wf)) |-> wf.i + x],
                                  LAMBDA x : x \notin empties)
       IN /\ wf' = IF tweet_ids = <<>>
                   THEN [wf EXCEPT !.errors = @ + Cardinality(empties),
                                   !.i = @ + wf.valid_batch_size]
                   ELSE [wf EXCEPT !.errors = @ + Cardinality(empties),
                                   !.tweet_ids = tweet_ids, !.pc = "classify"]
          /\ log' = [log EXCEPT !.errs = Bump(@, empties),
                                !.call = NoCall, !.params = NoParams,
                                !.handed = NotHanded]
    /\ UNCHANGED <<graph, pl, hf_token, stocks_csv, imported, sync, default_service, enriched, analysis>>

\* the label/score items a remote batch answer is made of
RemoteItems ==
    {[label |-> "positive", score |-> 9], [label |-> "Positive", score |-> 4],
     [label |-> "negative", score |-> 0]}

\* what batch_analyze_sentiment does on n texts: it raises, or it returns a
\* list of results. The real service computes the list from what the remote
\* end answers and never raises; a stand-in may do either, with a list of
\* any length. failed: the texts whose single remote call errored.
BatchOutcomes(service, n) ==
    IF service = "stub"
    THEN {[raised |-> TRUE, results |-> <<>>, failed |-> {}]}
         \cup {[raised |-> FALSE, results |-> r, failed |-> {}] :
                  r \in SeqsUpTo(StubResults, n + MaxExtra)}
    ELSE LET texts == [x \in 1..n |-> x]
         IN {[raised |-> FALSE,
              results |-> BatchAnalyzeSentiment(texts, "lists", items, <<>>),
              failed |-> {}] : items \in SeqsUpTo(RemoteLists, n + MaxExtra)}
            \cup
            {[raised |-> FALSE,
              results |-> BatchAnalyzeSentiment(texts, "dicts", items, <<>>),
              failed |-> {}] : items \in SeqsUpTo(RemoteItems, n + MaxExtra)}
            \cup
            {[raised |-> FALSE,
              results |-> BatchAnalyzeSentiment(texts, kind, <<>>, each),
              failed |-> {x \in 1..n : each[x].raised}] :
                  kind \in {"raise", "single", "other"},
                  each \in [1..n -> RemoteItemOutcomes]}

\* the j-th result goes to the j-th post of the batch, with or without text
BatchUpdatesByPosition(tweet_ids, results) ==
    [j \in 1..Min(Len(results), Len(tweet_ids)) |->
        [x |-> wf.i + j, id |-> wf.tweets[wf.i + j].id,
         sentiment |-> results[j].sentiment, confidence |-> results[j].confidence]]

\* lines 131-142: pair the j-th result with the j-th id
BatchUpdates(tweet_ids, results) ==
    [j \in 1..Min(Len(results), Len(tweet_ids)) |->
        [x |-> tweet_ids[j], id |-> wf.tweets[tweet_ids[j]].id,
         sentiment |-> results[j].sentiment, confidence |-> results[j].confidence]]

\* the loop moves to the next batch
NextBatch(w) ==
    [w EXCEPT !.i = @ + w.valid_batch_size, !.pc = "batch", !.k = 0,
              !.tweet_ids = <<>>, !.batch_updates = <<>>]

\* the batch error ends the run with an error result
OnBatchErrorAbort(w) == [w EXCEPT !.pc = "done", !.result = ErrorResult]

\* except Exception: the batch call raised, the posts of the batch are
\* handled one by one
OnBatchError(w) == [w EXCEPT !.pc = "fallback", !.k = 1]

\* the item error is logged but not counted
OnItemErrorLost(errors) == errors

\* except Exception as err: errors += 1; continue
OnItemError(errors) == errors + 1

\* tweets_processed is left for after the store update
CountPairedLate(tweets_processed, batch_updates) == tweets_processed

\* line 142: tweets_processed += 1 for every result paired with an id
CountPaired(tweets_processed, batch_updates) == tweets_processed + Len(batch_updates)

\* lines 128-142 and 168-169: the batch call and the pairing of its results,
\* or the entry into the per-item fallback when the call raises
ClassifyBatch ==
    /\ wf.pc = "classify"
    /\ \E out \in BatchOutcomes(wf.service, Len(wf.tweet_ids)) :
         LET sent == Range(wf.tweet_ids)
             failed == {wf.tweet_ids[x] : x \in out.failed}
             observed == [log EXCEPT !.sent = Bump(@, sent), !.batch_calls = @ + 1,
                                     !.remote_failed = @ \cup failed]
         IN IF out.raised
            THEN /\ wf' = OnBatchError(wf)
                 /\ log' = [observed EXCEPT !.batch_raised = @ \cup BatchIndexes(wf)]
            ELSE LET batch_updates == BatchUpdates(wf.tweet_ids, out.results)
                     counted == [wf EXCEPT !.tweets_processed = CountPaired(@, batch_updates)]
                 IN /\ wf' = IF batch_updates # <<>>
                             THEN [counted EXCEPT !.pc = "update",
                                                  !.batch_updates = batch_updates]
                             ELSE NextBatch(counted)
                    /\ log' = [observed EXCEPT
                                 !.results = out.results,
                                 !.procs = Bump(@, {batch_updates[j].x : j \in 1..Len(batch_updates)}),
                                 !.misaligned = IF Len(out.results) # Len(wf.tweet_ids)
                                                THEN @ \cup BatchIndexes(wf) ELSE @]
    /\ UNCHANGED <<graph, pl, hf_token, stocks_csv, imported, sync, default_service, enriched, analysis>>

\* the failed store call is counted as one error
OnBatchUpdateErrorOne(errors, batch_updates) == errors + 1

\* errors += len(batch_updates)
OnBatchUpdateError(errors, batch_updates) == errors + Len(batch_updates)

\* lines 144-161: one store call writes the whole batch
UpdateBatch ==
    /\ wf.pc = "update"
    /\ LET carried == {wf.batch_updates[j].x : j \in 1..Len(wf.batch_updates)}
           matched == {wf.batch_updates[j].x : j \in {m \in 1..Len(wf.batch_updates) :
                                        wf.batch_updates[m].id \in TweetIds(graph)}}
       IN \/ /\ graph' = UpdateSentiments(graph, wf.batch_updates)
             /\ wf' = NextBatch([wf EXCEPT !.tweets_updated =
                                    @ + CountUpdated(graph, wf.batch_updates)])
             /\ log' = [log EXCEPT !.attempts = Bump(@, carried),
                                   !.writes = Bump(@, matched),
                                   !.results = <<>>]
             /\ enriched' = enriched \cup {wf.tweets[x].id : x \in matched}
          \/ /\ wf' = NextBatch([wf EXCEPT !.errors =
                                    OnBatchUpdateError(@, wf.batch_updates)])
             /\ log' = [log EXCEPT !.attempts = Bump(@, carried),
                                   !.errs = Bump(@, carried),
                                   !.store_raised = @ \cup carried,
                                   !.results = <<>>]
             /\ UNCHANGED <<graph, enriched, analysis>>
    /\ UNCHANGED <<pl, hf_token, stocks_csv, imported, sync, default_service, analysis>>

\* what analyze_sentiment does on one text: it raises, or it returns a result
ItemOutcomes(service) ==
    IF service = "stub"
    THEN {[raised |-> TRUE, result |-> FailureResult, failed |-> TRUE]}
         \cup {[raised |-> FALSE, result |-> r, failed |-> FALSE] : r \in StubResults}
    ELSE {[raised |-> FALSE, result |-> AnalyzeSentiment(remote), failed |-> remote.raised] :
             remote \in RemoteItemOutcomes}

\* the loop does not move on from a post that is not the last of its batch
NextItemStay(w) ==
    IF w.k < Len(BatchOf(w)) THEN w ELSE NextBatch(w)

\* after the k-th post of the batch: the next one, or the next batch
NextItem(w) ==
    IF w.k < Len(BatchOf(w)) THEN [w EXCEPT !.k = @ + 1] ELSE NextBatch(w)

\* lines 170-205: the fallback handles the k-th post of the batch
FallbackItem ==
    /\ wf.pc = "fallback"
    /\ LET x == wf.i + wf.k
           tweet == wf.tweets[x]
       IN IF EmptyText(tweet.text)
          THEN /\ wf' = NextItem([wf EXCEPT !.errors = @ + 1])
               /\ log' = [log EXCEPT !.errs = Bump(@, {x})]
               /\ UNCHANGED <<graph, enriched, analysis>>
          ELSE \E out \in ItemOutcomes(wf.service) :
               LET called == [log EXCEPT !.sent = Bump(@, {x}), !.singles = Bump(@, {x}),
                                         !.remote_failed = IF out.failed THEN @ \cup {x} ELSE @]
                   upd == [id |-> tweet.id, sentiment |-> out.result.sentiment,
                           confidence |-> out.result.confidence]
               IN IF out.raised
                  THEN /\ wf' = NextItem([wf EXCEPT !.errors = OnItemError(@)])
                       /\ log' = [called EXCEPT !.errs = Bump(@, {x}),
                                                !.item_raised = @ \cup {x}]
                       /\ UNCHANGED <<graph, enriched, analysis>>
                  ELSE \/ /\ graph' = SetSentiment(graph, upd)
                          /\ wf' = NextItem([wf EXCEPT
                                     !.tweets_updated = IF CountUpdated(graph, <<upd>>) > 0
                                                        THEN @ + 1 ELSE @,
                                     !.tweets_processed = @ + 1])
                          /\ log' = [called EXCEPT
                                     !.attempts = Bump(@, {x}),
                                     !.writes = IF tweet.id \in TweetIds(graph)
                                                THEN Bump(@, {x}) ELSE @,
                                     !.procs = Bump(@, {x})]
                          /\ enriched' = enriched \cup ({tweet.id} \cap TweetIds(graph))
                       \/ /\ wf' = NextItem([wf EXCEPT !.errors = OnItemError(@)])
                          /\ log' = [called EXCEPT !.attempts = Bump(@, {x}),
                                                   !.errs = Bump(@, {x}),
                                                   !.store_raised = @ \cup {x}]
                          /\ UNCHANGED <<graph, enriched, analysis>>
    /\ UNCHANGED <<pl, hf_token, stocks_csv, imported, sync, default_service, analysis>>

\* lines 207-216: the loop is over, the counters are returned
FinishWorkflow ==
    /\ wf.pc = "batch"
    /\ wf.i >= Len(wf.tweets)
    /\ wf' = [wf EXCEPT !.pc = "done",
                        !.result = [status |-> "success",
                                    tweets_processed |-> wf.tweets_processed,
                                    tweets_updated |-> wf.tweets_updated,
                                    errors |-> wf.errors]]
    /\ UNCHANGED <<graph, log, pl, hf_token, stocks_csv, imported, sync, default_service, enriched, analysis>>

\* the direct caller takes the result
ReturnWorkflow ==
    /\ wf.pc = "done"
    /\ wf.caller = "direct"
    /\ wf' = IdleWf
    /\ log' = EmptyLog(0)
    /\ UNCHANGED <<graph, pl, hf_token, stocks_csv, imported, sync, default_service, enriched, analysis>>

\* ---------------------------------------------------------- sync_sentiments
\* POST /api/sentiment/syncSentiments: the handler carries its own copy of
\* the fetch and of the batch loop; the loop is the same code, statement for
\* statement, and is modelled by the same steps

\* not api_key and not settings.HF_TOKEN
NoToken(api_key, env) ==
    /\ IsNull(api_key) \/ api_key = Val("")
    /\ IsNull(env) \/ env = Val("")

\* lines 61-91: the parameters of the fetch query; both dates go as given
BuildSyncParams(request) ==
    [overwrite |-> request.overwrite,
     stock |-> IF ~IsNull(request.stock) /\ request.stock # Val("")
               THEN request.stock ELSE Null,
     start_date |-> IF ~IsNull(request.start_date) /\ request.start_date # Val(StrEmpty)
                    THEN request.start_date ELSE Null,
     end_date |-> IF ~IsNull(request.end_date) /\ request.end_date # Val(StrEmpty)
                  THEN request.end_date ELSE Null,
     limit |-> IF ~IsNull(request.limit) /\ request.limit # Val(0) THEN request.limit ELSE Null]

\* raise HTTPException(status_code=...)
HttpError(service, code) ==
    [IdleWf EXCEPT !.pc = "done", !.caller = "sync", !.service = service,
                   !.result = [ErrorResult EXCEPT !.status = code]]

\* lines 44-123: the token check, the classifier, the fetch query
RunSyncSentiments(request, service) ==
    LET params == BuildSyncParams(request)
        seen(n) == [EmptyLog(n) EXCEPT
                       !.call = CallOf(request),
                       !.handed = Handed(service, request.api_key, default_service, FALSE)]
    IN
    IF NoToken(request.api_key, hf_token)
    THEN /\ wf' = HttpError(service, "http400")
         /\ log' = [seen(0) EXCEPT !.handed = NotHanded]
         /\ UNCHANGED default_service
    ELSE \E init_raises \in GetServiceOutcomes(service, request.api_key) :
        IF init_raises
        THEN /\ \E code \in (IF service = "hf" THEN {"http400"} ELSE {"http400", "http500"}) :
                    wf' = HttpError(service, code)
             /\ log' = [seen(0) EXCEPT
                          !.init_raised = TRUE,
                          !.handed = Handed(service, request.api_key, default_service, TRUE)]
             /\ UNCHANGED default_service
        ELSE /\ default_service' = CacheAfter(service, request.api_key, default_service)
             /\ \/ /\ wf' = Fetched("sync", service, request.batch_size, <<>>)
                   /\ log' = [seen(0) EXCEPT !.fetch_calls = 1, !.fetch_raised = TRUE,
                                              !.params = SentParams(params)]
                \/ \E tweets \in FetchResults(graph, params) :
                   /\ wf' = Fetched("sync", service, request.batch_size, tweets)
                   /\ log' = [seen(Len(tweets)) EXCEPT
                                !.fetch_calls = 1,
                                !.params = SentParams(params)]

\* a client posts to /api/sentiment/syncSentiments
StartSyncSentiments ==
    /\ wf.pc = "idle"
    /\ pl.pc = "idle"
    /\ \E request \in WorkflowArgs, service \in Services :
           RunSyncSentiments(request, service)
    /\ UNCHANGED <<graph, pl, hf_token, stocks_csv, imported, sync, enriched, analysis>>

\* lines 229-243: the response is sent
SyncSentimentsRespond ==
    /\ wf.pc = "done"
    /\ wf.caller = "sync"
    /\ wf' = IdleWf
    /\ log' = EmptyLog(0)
    /\ UNCHANGED <<graph, pl, hf_token, stocks_csv, imported, sync, default_service, enriched, analysis>>

\* ------------------------------------------------------ analyze_sentiment
\* POST /api/sentiment/analyze of routers/sentiment.py

\* what the remote call on the one text can do: raise, answer something that
\* is not a list, or answer a list of label/score items
AnalyzeOutcomes ==
    {Raised, Answered(NotAList)}
    \cup {Answered(AList(items)) : items \in SeqsUpTo([label : {"positive", "Positive", "POSITIVE", "negative", "neutral"},
                        score : {4, 5, 9}], MaxItems)}

\* remote: what the remote call did, when the handler came to make it
IdleAnalysis ==
    [status |-> "none", remote |-> Raised, sentiment |-> Zero, confidence |-> Zero]

\* lines 11-35: the token check, get_hf_service, one analyze_sentiment call
AnalyzeEndpoint ==
    /\ pl.pc = "idle"
    /\ wf.pc = "idle"
    /\ analysis.status = "none"
    /\ \E request \in [api_key : ApiKeys \cup {Val("string")}], remote \in AnalyzeOutcomes :
         IF NoToken(request.api_key, hf_token)
            \/ GetHfServiceRaises(request.api_key, hf_token, default_service)
         THEN /\ analysis' = [IdleAnalysis EXCEPT !.status = "http400"]
              /\ UNCHANGED default_service
         ELSE LET result == AnalyzeSentiment(remote)
              IN /\ analysis' = [status |-> "ok", remote |-> remote,
                                 sentiment |-> result.sentiment,
                                 confidence |-> result.confidence]
                 /\ default_service' = GetHfService(request.api_key, default_service).cached
    /\ UNCHANGED <<graph, wf, log, pl, hf_token, stocks_csv, sync, imported, enriched>>

\* the response, or the HTTPException, has gone to the client
AnalyzeRespond ==
    /\ analysis.status # "none"
    /\ analysis' = IdleAnalysis
    /\ UNCHANGED <<graph, wf, log, pl, hf_token, default_service, stocks_csv, sync,
                   imported, enriched>>

\* ------------------------------------------------------ dataset_to_graph
PipelineRequests ==
    [stock : Tickers,
     start_date : {Null, Val(StrPlaceholder), Val(<<2>>)},
     end_date : {Null, Val(<<1>>)},
     chunk_size : {0, 1, 2}]

\* what the handler finds on disk: whether STOCKS_CSV and SOCIAL_CSV exist,
\* and the tweet file it then reads
SourceFiles ==
    {[stocks |-> TRUE, social |-> TRUE, social_csv |-> f] : f \in SocialFiles}
    \cup {[stocks |-> a, social |-> b, social_csv |-> [cols |-> {}, rows |-> <<>>]] :
             a, b \in BOOLEAN}

\* a date of the request, or the default when it is absent, blank or "string"
WindowDate(str, default) ==
    IF ~IsNull(str) /\ Get(str) # StrEmpty /\ Get(str) # StrPlaceholder
    THEN ToDatetime(Get(str)) ELSE default

\* found: what os.path.exists answered for the two files; rows: the rows
\* built from the chunk read last
IdlePl ==
    [pc |-> "idle", stock |-> "X", start_date |-> DefaultStart, end_date |-> DefaultEnd,
     chunk_size |-> 1, social_csv |-> [cols |-> {}, rows |-> <<>>], pos |-> 0,
     found |-> [stocks |-> TRUE, social |-> TRUE], rows |-> <<>>,
     stock_records |-> 0, tweet_records |-> 0,
     status |-> "none", sentiment_processing |-> NoResult]

\* the handler ends: with its summary, with the error result, or with an
\* exception that no handler of dataset_to_graph catches
Ended(p, status) == [p EXCEPT !.pc = "done", !.status = status]

\* one of the two files is enough
FilesFoundEither(found) == found.stocks \/ found.social

\* not os.path.exists(STOCKS_CSV) or not os.path.exists(SOCIAL_CSV), negated
FilesFound(found) == found.stocks /\ found.social

\* lines 45-63: the constraints (a store call, which may raise), the file
\* check and the date window
PipelineStart ==
    /\ pl.pc = "idle"
    /\ wf.pc = "idle"
    /\ \/ pl' = Ended(IdlePl, "exception")
       \/ \E request \in PipelineRequests, files \in SourceFiles :
         LET found == [stocks |-> files.stocks, social |-> files.social]
         IN
         pl' = IF ~FilesFound(found)
               THEN Ended([IdlePl EXCEPT !.found = found], "error")
               ELSE [IdlePl EXCEPT !.pc = "prices",
                                   !.found = found,
                                   !.social_csv = files.social_csv,
                                   !.stock = request.stock,
                                   !.start_date = WindowDate(request.start_date, DefaultStart),
                                   !.end_date = WindowDate(request.end_date, DefaultEnd),
                                   !.chunk_size = request.chunk_size]
    /\ UNCHANGED <<graph, wf, log, hf_token, stocks_csv, imported, sync, default_service, enriched, analysis>>

\* lines 82-117: one chunk of the price file; read_csv rejects a chunk size
\* below 1, a store error is not caught
PriceChunk ==
    /\ pl.pc = "prices"
    /\ IF pl.chunk_size < 1
       THEN pl' = Ended(pl, "exception") /\ UNCHANGED graph
       ELSE IF pl.pos >= Len(stocks_csv)
       THEN pl' = [pl EXCEPT !.pc = "posts", !.pos = 0, !.rows = <<>>] /\ UNCHANGED graph
       ELSE LET filtered == FilteredRows(Chunk(stocks_csv, pl.pos, pl.chunk_size),
                                         pl.stock, pl.start_date, pl.end_date)
                rows == [x \in 1..Len(filtered) |-> PriceRow(filtered[x])]
                read == [pl EXCEPT !.pos = @ + pl.chunk_size, !.rows = rows]
            IN IF rows = <<>>
               THEN pl' = read /\ UNCHANGED graph
               ELSE \/ /\ graph' = StockUpsert(graph, rows)
                       /\ pl' = [read EXCEPT !.stock_records = @ + Len(rows)]
                    \/ /\ pl' = Ended([pl EXCEPT !.rows = rows], "exception")
                       /\ UNCHANGED graph
    /\ UNCHANGED <<wf, log, hf_token, stocks_csv, imported, sync, default_service, enriched, analysis>>

\* the Tweet still holds the sentiment/confidence pair it held
SamePair(after, before) ==
    after.sentiment = before.sentiment /\ after.confidence = before.confidence

\* lines 160-214: one chunk of the tweet file
PostChunk ==
    /\ pl.pc = "posts"
    /\ IF pl.pos >= Len(pl.social_csv.rows)
       THEN pl' = [pl EXCEPT !.pc = "enrich", !.pos = 0, !.rows = <<>>] /\ UNCHANGED graph
       ELSE LET filtered == FilteredRows(Chunk(pl.social_csv.rows, pl.pos, pl.chunk_size),
                                         pl.stock, pl.start_date, pl.end_date)
                rows == [x \in 1..Len(filtered) |-> TweetRow(filtered[x], pl.social_csv.cols)]
                read == [pl EXCEPT !.pos = @ + pl.chunk_size, !.rows = rows]
            IN IF rows = <<>>
               THEN pl' = read /\ UNCHANGED graph
               ELSE \/ /\ graph' = TweetUpsert(graph, rows)
                       /\ pl' = [read EXCEPT !.tweet_records = @ + Len(rows)]
                    \/ /\ pl' = Ended([pl EXCEPT !.rows = rows], "exception")
                       /\ UNCHANGED graph
    /\ enriched' = {id \in enriched : SamePair(graph'.tweets[id], graph.tweets[id])}
    /\ UNCHANGED <<wf, log, hf_token, stocks_csv, imported, sync, default_service, analysis>>

\* the workflow is called for the ticker alone, without dates
PipelineArgsNoDates(p) ==
    [stock |-> Val(p.stock), start_date |-> Null, end_date |-> Null,
     batch_size |-> 100, overwrite |-> FALSE, limit |-> Null, api_key |-> Null]

\* lines 225-230: the arguments dataset_to_graph passes to the workflow
PipelineArgs(p) ==
    [stock |-> Val(p.stock),
     start_date |-> Val(DateOnly(p.start_date)),
     end_date |-> Val(DateOnly(p.end_date)),
     batch_size |-> 100, overwrite |-> FALSE, limit |-> Null, api_key |-> Null]

\* line 225: the pipeline invokes process_missing_sentiments
PipelineEnrich ==
    /\ pl.pc = "enrich"
    /\ wf.pc = "idle"
    /\ \E service \in Services : RunWorkflow("pipeline", PipelineArgs(pl), service)
    /\ pl' = [pl EXCEPT !.pc = "await"]
    /\ UNCHANGED <<graph, hf_token, stocks_csv, imported, sync, enriched, analysis>>

\* lines 232-233: the workflow's result joins the summary
PipelineReturn ==
    /\ pl.pc = "await"
    /\ wf.pc = "done"
    /\ wf.caller = "pipeline"
    /\ pl' = [Ended(pl, "success") EXCEPT !.sentiment_processing = wf.result]
    /\ wf' = IdleWf
    /\ log' = EmptyLog(0)
    /\ UNCHANGED <<graph, hf_token, stocks_csv, imported, sync, default_service, enriched, analysis>>

\* the response is sent
PipelineRespond ==
    /\ pl.pc = "done"
    /\ pl' = IdlePl
    /\ UNCHANGED <<graph, wf, log, hf_token, stocks_csv, imported, sync, default_service, enriched, analysis>>

\* another client of the store empties it: MATCH (n) DETACH DELETE n
ClearDatabase ==
    /\ graph # EmptyGraph
    /\ graph' = DetachDeleteAll(graph)
    /\ enriched' = {}
    /\ UNCHANGED <<wf, log, pl, hf_token, stocks_csv, imported, sync, default_service, analysis>>

\* ------------------------------------------------------------ sync_stocks
\* pd.to_datetime("2021-09-30") and pd.to_datetime("2022-09-30")
SyncDefaultStart == <<1, 0>>
SyncDefaultEnd == <<8, 0>>

SyncRequests ==
    [stock : Tickers, start_date : {Null, Val(<<2>>)}, end_date : {Null, Val(<<1>>)},
     chunk_size : {0, 1000}]

\* chunk_size = max(100, min(request.chunk_size, 5000))
SyncChunkSize(chunk_size) == Max(100, Min(chunk_size, 5000))

\* the dict sync_stocks builds from one row of the price file
SyncRow(row) ==
    [ticker |-> row.Stock,
     date |-> DateOnly(Get(ToDatetimeCell(row.Date))),
     close |-> row.Close, volume |-> row.Volume]

IdleSync == [status |-> "none", records_synced |-> 0, rows |-> <<>>]

\* sync_stocks, from request to response. The chunk size is at least 100 and
\* the price file is shorter, so the file is read as one chunk and the
\* handler makes one upsert call.
SyncStocks ==
    /\ pl.pc = "idle"
    /\ wf.pc = "idle"
    /\ \E request \in SyncRequests, found \in BOOLEAN :
         LET start_date == WindowDate(request.start_date, SyncDefaultStart)
             end_date == WindowDate(request.end_date, SyncDefaultEnd)
             filtered == FilteredRows(Chunk(stocks_csv, 0, SyncChunkSize(request.chunk_size)),
                                      request.stock, start_date, end_date)
             rows == [x \in 1..Len(filtered) |-> SyncRow(filtered[x])]
         IN \/ /\ sync' = [IdleSync EXCEPT !.status = "exception"]
               /\ UNCHANGED graph
            \/ /\ ~found
               /\ sync' = [IdleSync EXCEPT !.status = "error"]
               /\ UNCHANGED graph
            \/ /\ found
               /\ \A pair \in DOMAIN SyncUpsert(graph, rows).price_on :
                      Len(SyncUpsert(graph, rows).price_on[pair]) <= MaxEdges
               /\ \/ /\ graph' = SyncUpsert(graph, rows)
                     /\ sync' = [status |-> "success", records_synced |-> Len(rows),
                                 rows |-> rows]
                  \/ /\ rows # <<>>
                     /\ sync' = [status |-> "exception", records_synced |-> 0, rows |-> rows]
                     /\ UNCHANGED graph
    /\ UNCHANGED <<wf, log, pl, hf_token, stocks_csv, imported, default_service, enriched, analysis>>

\* ---------------------------------------------------------- import_social
\* POST /social/import of routers/ingestion.py
ImportRequests ==
    [stock : Tickers, start_date : {Null, Val(<<2>>)}, end_date : {Null, Val(<<1>>)},
     chunk_size : {0, 1000}]

\* int(x) of a float: the fraction is dropped
IntOf(x) == IF x >= 0 THEN (x \div One) * One ELSE 0 - (((0 - x) \div One) * One)

\* the dict import_social builds from one row of the tweet file
ImportRow(row, cols) ==
    LET date == Get(ToDatetimeCell(row.Date))
        has == "Sentiment" \in cols /\ ~IsNull(row.Sentiment)
    IN [ticker |-> row.Stock,
        tweet_id |-> Sha256(row.Tweet, StrOf(date)),
        text |-> row.Tweet,
        date |-> IsoFormat(date),
        sentiment |-> IF has THEN Val(IntOf(Get(row.Sentiment))) ELSE Null,
        confidence |-> IF has /\ "Confidence" \in cols
                       THEN (IF IsNull(row.Confidence) THEN Val(NaN) ELSE row.Confidence)
                       ELSE Null]

\* the cypher of import_social for one row: MERGE the Stock and the Tweet,
\* SET text and date, SET sentiment and confidence when the row has a
\* sentiment, MERGE the DISCUSSES edge
MergeImported(g, row) ==
    LET old == IF row.tweet_id \in TweetIds(g) THEN g.tweets[row.tweet_id] ELSE LegacyTweet
    IN [g EXCEPT
        !.stocks = @ \cup {row.ticker},
        !.tweets = (row.tweet_id :>
                      [text |-> Val(row.text), date |-> Val(row.date),
                       sentiment |-> IF IsNull(row.sentiment) THEN old.sentiment
                                     ELSE row.sentiment,
                       confidence |-> IF IsNull(row.sentiment) THEN old.confidence
                                      ELSE row.confidence]) @@ @,
        !.discusses = @ \cup {<<row.tweet_id, row.ticker>>}]

RECURSIVE ImportUpsert(_, _)
\* UNWIND $rows AS row ... (the cypher of import_social)
ImportUpsert(g, rows) ==
    IF rows = <<>> THEN g ELSE ImportUpsert(MergeImported(g, Head(rows)), Tail(rows))

\* source: the rows of the file the rows were built from; cols: its columns
IdleImport ==
    [status |-> "none", records_imported |-> 0, rows |-> <<>>, source |-> <<>>, cols |-> {}]

\* import_social, from request to response. The chunk size is at least 100
\* and the tweet file is shorter, so the file is read as one chunk and the
\* handler makes one upsert call.
ImportSocial ==
    /\ pl.pc = "idle"
    /\ wf.pc = "idle"
    /\ \E request \in ImportRequests, found \in BOOLEAN, file \in SocialFiles :
         LET start_date == WindowDate(request.start_date, SyncDefaultStart)
             end_date == WindowDate(request.end_date, SyncDefaultEnd)
             filtered == FilteredRows(Chunk(file.rows, 0, SyncChunkSize(request.chunk_size)),
                                      request.stock, start_date, end_date)
             rows == [x \in 1..Len(filtered) |-> ImportRow(filtered[x], file.cols)]
             read == [IdleImport EXCEPT !.rows = rows, !.source = filtered,
                                        !.cols = file.cols]
         IN \/ /\ imported' = [IdleImport EXCEPT !.status = "exception"]
               /\ UNCHANGED graph
            \/ /\ ~found
               /\ imported' = [IdleImport EXCEPT !.status = "error"]
               /\ UNCHANGED graph
            \/ /\ found
               /\ \/ /\ graph' = ImportUpsert(graph, rows)
                     /\ imported' = [read EXCEPT !.status = "success",
                                                 !.records_imported = Len(rows)]
                  \/ /\ rows # <<>>
                     /\ imported' = [read EXCEPT !.status = "exception"]
                     /\ UNCHANGED graph
    /\ enriched' = {id \in enriched : SamePair(graph'.tweets[id], graph.tweets[id])}
    /\ UNCHANGED <<wf, log, pl, hf_token, stocks_csv, sync, default_service, analysis>>

\* the price file is replaced by its other version while no handler reads it
RewriteStocksFile ==
    /\ pl.pc \in {"idle", "done"}
    /\ stocks_csv' \in StockFiles \ {stocks_csv}
    /\ UNCHANGED <<graph, wf, log, pl, hf_token, sync, imported, default_service, enriched, analysis>>

\* --------------------------------------------------------- specification
\* The application runs its handlers on one event loop and neither handler
\* suspends before it returns (the store and classifier calls and the pacing
\* sleeps block), so a workflow run and a pipeline run never overlap; other
\* clients of the store act at any time.
\* the store may already hold a Tweet written by someone else, without text
InitGraphs ==
    {EmptyGraph}
    \cup {[EmptyGraph EXCEPT !.tweets = (LegacyId :> [LegacyTweet EXCEPT !.text = t])] :
             t \in {Null, Val("")}}

Init ==
    /\ graph \in InitGraphs
    /\ wf = IdleWf
    /\ log = EmptyLog(0)
    /\ pl = IdlePl
    /\ hf_token \in {Null, Val("tok")}
    /\ default_service = FALSE
    /\ stocks_csv = StockRows
    /\ sync = IdleSync
    /\ imported = IdleImport
    /\ enriched = {}
    /\ analysis = IdleAnalysis

Next ==
    \/ StartWorkflow
    \/ ScanBatch
    \/ ClassifyBatch
    \/ UpdateBatch
    \/ FallbackItem
    \/ FinishWorkflow
    \/ ReturnWorkflow
    \/ PipelineStart
    \/ PriceChunk
    \/ PostChunk
    \/ PipelineEnrich
    \/ PipelineReturn
    \/ PipelineRespond
    \/ ClearDatabase

Spec == Init /\ [][Next]_vars

\* The workflow alone, over stores that earlier ingestion runs left behind:
\* the tweet file and the price file ingested for ticker X over the default
\* window, on top of the stores of Init.
IngestedRows(file) ==
    LET filtered == FilteredRows(file.rows, "X", DefaultStart, DefaultEnd)
    IN [x \in 1..Len(filtered) |-> TweetRow(filtered[x], file.cols)]
IngestedPrices ==
    LET filtered == FilteredRows(StockRows, "X", DefaultStart, DefaultEnd)
    IN [x \in 1..Len(filtered) |-> PriceRow(filtered[x])]
IngestedGraphs ==
    {StockUpsert(TweetUpsert(g, IngestedRows(file)), IngestedPrices) :
        g \in InitGraphs, file \in SocialFiles}

InitEnrich ==
    /\ graph \in IngestedGraphs
    /\ wf = IdleWf
    /\ log = EmptyLog(0)
    /\ pl = IdlePl
    /\ hf_token \in {Null, Val("tok")}
    /\ default_service = FALSE
    /\ stocks_csv = StockRows
    /\ sync = IdleSync
    /\ imported = IdleImport
    /\ enriched = {}
    /\ analysis = IdleAnalysis

NextEnrich ==
    \/ StartWorkflow
    \/ ScanBatch
    \/ ClassifyBatch
    \/ UpdateBatch
    \/ FallbackItem
    \/ FinishWorkflow
    \/ ReturnWorkflow
    \/ ClearDatabase

SpecEnrich == InitEnrich /\ [][NextEnrich]_vars

\* The workflow over one such store: the Tweets a and b, neither with a
\* sentiment yet. A run that has started goes on: the loop
\* is straight-line code, each of its steps is taken in turn.
InitRun ==
    /\ InitEnrich
    /\ graph = StockUpsert(
                 TweetUpsert(EmptyGraph, IngestedRows([cols |-> {}, rows |-> SocialRows])),
                 IngestedPrices)
    /\ hf_token = Val("tok")

\* Price ingestion alone, over a price file that changes between runs:
\* sync_stocks and dataset_to_graph up to the end of its price phase.
InitSync ==
    /\ Init
    /\ graph = EmptyGraph
    /\ hf_token = Val("tok")

NextSync ==
    \/ SyncStocks
    \/ RewriteStocksFile
    \/ PipelineStart
    \/ PriceChunk
    \/ PipelineRespond
    \/ ClearDatabase

SpecSync == InitSync /\ [][NextSync]_vars

\* Post ingestion alone, by its two handlers: import_social and
\* dataset_to_graph up to the end of its post phase.
NextImport ==
    \/ ImportSocial
    \/ PipelineStart
    \/ PriceChunk
    \/ PostChunk
    \/ PipelineRespond
    \/ ClearDatabase

SpecImport == InitSync /\ [][NextImport]_vars

\* Enrichment by its two entry points, process_missing_sentiments and
\* sync_sentiments, over the stores of InitEnrich.
NextSentiments ==
    \/ StartWorkflow
    \/ StartSyncSentiments
    \/ ScanBatch
    \/ ClassifyBatch
    \/ UpdateBatch
    \/ FallbackItem
    \/ FinishWorkflow
    \/ ReturnWorkflow
    \/ SyncSentimentsRespond
    \/ ClearDatabase

SpecSentiments == InitEnrich /\ [][NextSentiments]_vars

\* The single-text endpoint alone, over every answer of the remote call.
NextAnalyze ==
    \/ AnalyzeEndpoint
    \/ AnalyzeRespond
    \/ ClearDatabase

SpecAnalyze == Init /\ [][NextAnalyze]_vars

SpecRun == InitRun /\ [][NextEnrich]_vars

FairRun ==
    SpecRun /\ WF_vars(ScanBatch \/ ClassifyBatch \/ UpdateBatch \/ FallbackItem
                       \/ FinishWorkflow)

\* ------------------------------------------------------------------ claims
Fetched_N == Len(wf.tweets)
Posts == 1..Len(wf.tweets)
WithText == {x \in Posts : ~EmptyText(wf.tweets[x].text)}
RunDone == wf.pc = "done" /\ wf.tweets # <<>>

\* C1: when a run that reached the batch loop returns, every fetched post
\* was counted exactly once, in tweets_processed or in errors, so the two
\* counters add up to the number of fetched posts.
C1_EveryPostCountedOnce ==
    RunDone =>
        /\ wf.result.tweets_processed + wf.result.errors = Fetched_N
        /\ \A x \in Posts : log.procs[x] + log.errs[x] = 1

\* C2: when the run returns, every post with text of a batch whose batch
\* call returned a list of another length than the texts sent got one
\* analyze_sentiment call of its own.
C2_MisalignedFallsBack ==
    RunDone => \A x \in log.misaligned \cap WithText : log.singles[x] = 1

\* a finished run in which every batch call raised, every fetched post has
\* text and no store write raised
C3_AllBatchesRaised ==
    /\ RunDone
    /\ WithText = Posts
    /\ log.batch_raised = Posts
    /\ log.store_raised = {}

\* C3: if every batch call raised, every fetched post has text and no store
\* write raised, then each post got exactly one analyze_sentiment call,
\* errors is the number of posts on which that call raised and
\* tweets_processed is the number of the others.
C3_FallbackCountsItemFailures ==
    C3_AllBatchesRaised =>
        /\ \A x \in Posts : log.singles[x] = 1
        /\ wf.result.errors = Cardinality(log.item_raised)
        /\ wf.result.tweets_processed = Fetched_N - Cardinality(log.item_raised)
C3_Witness ==
    /\ C3_AllBatchesRaised
    /\ Fetched_N >= 2
    /\ log.item_raised # {}
    /\ log.item_raised # Posts

\* C4: a post whose single-item remote classification errored is counted in
\* errors, is not counted as processed, and no store update carries it.
C4_ItemFailureIsError ==
    \A x \in log.remote_failed :
        log.errs[x] = 1 /\ log.procs[x] = 0 /\ log.attempts[x] = 0

\* C5: when the run returns, every fetched post with empty or missing text
\* was never sent to the classifier, never carried by a store update, and
\* added exactly one to errors.
C5_EmptyTextCountedOnce ==
    RunDone =>
        \A x \in Posts \ WithText :
            log.sent[x] = 0 /\ log.attempts[x] = 0 /\ log.errs[x] = 1

\* C6: the step in which the store call for a whole batch raises adds the
\* number of posts of that call to errors and moves on to the next batch;
\* and every run that reached the loop returns status success.
C6_BatchStoreErrorCounted ==
    /\ [][(wf.pc = "update" /\ log'.store_raised # log.store_raised) =>
            /\ wf'.errors = wf.errors + Len(wf.batch_updates)
            /\ wf'.tweets_processed = wf.tweets_processed
            /\ wf'.pc = "batch"
            /\ wf'.i = wf.i + wf.valid_batch_size]_vars
    /\ [](RunDone => wf.result.status = "success")
C6_Witness ==
    /\ RunDone
    /\ wf.result.status = "success"
    /\ wf.result.errors >= 2
    /\ \E x, y \in log.store_raised \ log.batch_raised, z \in Posts :
        /\ x # y
        /\ x + wf.valid_batch_size <= z
        /\ log.errs[z] + log.sent[z] >= 1

\* C7: a run that reached the batch loop eventually returns, with status
\* success, having sent every post with text to the classifier, whatever
\* batch and per-item calls raised on the way.
C7_RunTerminates ==
    (wf.pc = "batch") ~>
        (/\ wf.pc = "done"
         /\ wf.result.status = "success"
         /\ \A x \in WithText : log.sent[x] >= 1)
C7_Witness ==
    /\ RunDone
    /\ wf.result.status = "success"
    /\ \E x, y \in Posts :
        /\ x \in log.batch_raised /\ x \in log.item_raised
        /\ x + wf.valid_batch_size <= y
        /\ log.sent[y] >= 1

\* C8: a step of post ingestion leaves the sentiment and confidence of every
\* Post whose pair enrichment wrote unchanged.
C8_ReingestionKeepsPair ==
    [][(pl.pc = "posts" /\ pl' # pl) =>
          \A id \in enriched :
              /\ id \in TweetIds(graph')
              /\ SamePair(graph'.tweets[id], graph.tweets[id])]_vars

\* C9: every Post has sentiment and confidence both set or both unset.
C9_PairBothOrNeither ==
    \A id \in TweetIds(graph) :
        IsNull(graph.tweets[id].sentiment) <=> IsNull(graph.tweets[id].confidence)

\* C10: a step of the workflow creates and deletes no Post, changes no
\* Post's text or date and no other node or edge, and adds to tweets_updated
\* exactly the updates whose id matched an existing Post.
C10_EnrichmentFrame ==
    [][wf' # wf =>
          /\ TweetIds(graph') = TweetIds(graph)
          /\ \A id \in TweetIds(graph) :
                /\ graph'.tweets[id].text = graph.tweets[id].text
                /\ graph'.tweets[id].date = graph.tweets[id].date
          /\ graph'.stocks = graph.stocks
          /\ graph'.days = graph.days
          /\ graph'.price_on = graph.price_on
          /\ graph'.discusses = graph.discusses
          /\ graph'.on_date = graph.on_date
          /\ wf.pc \in {"update", "fallback"} =>
                wf'.tweets_updated = wf.tweets_updated
                    + Cardinality({x \in Posts : wf.tweets[x].id \in TweetIds(graph)
                                                 /\ log'.attempts[x] # log.attempts[x]
                                                 /\ x \notin log'.store_raised})]_vars
C10_Witness ==
    /\ wf.pc = "done"
    /\ \E x, y \in Posts :
        /\ log.attempts[x] = 1 /\ x \notin log.store_raised
        /\ log.writes[x] = 0 /\ wf.tweets[x].id \notin TweetIds(graph)
        /\ log.writes[y] = 1
    /\ wf.result.tweets_updated = Cardinality({y \in Posts : log.writes[y] = 1})

\* the rows the post phase of the current pipeline run builds from the whole
\* tweet file, read as one chunk
AllTweetRows ==
    LET filtered == FilteredRows(pl.social_csv.rows, pl.stock, pl.start_date, pl.end_date)
    IN [x \in 1..Len(filtered) |-> TweetRow(filtered[x], pl.social_csv.cols)]

\* the Tweet nodes of g that hold the text and timestamp of a row
NodesOf(g, row) ==
    {id \in TweetIds(g) : g.tweets[id].text = Val(row.text) /\ g.tweets[id].date = Val(row.date)}

\* C11: after a step of post ingestion, ingesting the rows of that step once
\* more changes nothing, the same rows ingested in two chunks give the same
\* graph, and each row has exactly one Post, the one with the id derived from
\* its text and timestamp; and when a run's post phase is over and the Posts of all its
\* rows are in the graph, ingesting the whole file again changes nothing.
C11_IngestionIdempotent ==
    /\ [][(pl.pc = "posts" /\ pl'.tweet_records # pl.tweet_records) =>
            LET rows == pl'.rows
            IN /\ TweetUpsert(graph', rows) = graph'
               /\ \A k \in 0..Len(rows) :
                     TweetUpsert(TweetUpsert(graph, SubSeq(rows, 1, k)),
                                 SubSeq(rows, k + 1, Len(rows))) = graph'
               /\ \A x \in 1..Len(rows) :
                     NodesOf(graph', rows[x]) = {rows[x].tweet_id}]_vars
    /\ []((/\ pl.pc = "enrich"
           /\ \A x \in 1..Len(AllTweetRows) : AllTweetRows[x].tweet_id \in TweetIds(graph))
            => TweetUpsert(graph, AllTweetRows) = graph)
\* a run re-ingested its first rows while the graph still holds, from an
\* earlier run, the Post of a row it has not read yet
C11_Witness ==
    /\ pl.pc = "posts"
    /\ pl.tweet_records >= 1
    /\ \E x \in (pl.pos + 1)..Len(pl.social_csv.rows) :
          /\ InWindow(pl.social_csv.rows[x], pl.stock, pl.start_date, pl.end_date)
          /\ TweetRow(pl.social_csv.rows[x], pl.social_csv.cols).tweet_id \in TweetIds(graph)

\* the last row of rows for the Stock and TradingDay of rows[x] is rows[x]
LastOfPair(rows, x) ==
    \A y \in (x + 1)..Len(rows) :
        rows[y].ticker # rows[x].ticker \/ rows[y].date # rows[x].date

\* C12: there is never more than one PRICE_ON edge between a Stock and a
\* TradingDay, and after a price-ingestion step the edge of each ingested
\* pair carries the values of the last row ingested for that pair.
C12_OneBarLastWins ==
    /\ [](\A pair \in DOMAIN graph.price_on : Len(graph.price_on[pair]) <= 1)
    /\ [][(sync' # sync /\ sync'.status = "success") =>
            \A x \in 1..Len(sync'.rows) :
                LastOfPair(sync'.rows, x) =>
                    LET edges == PriceEdges(graph', sync'.rows[x].ticker, sync'.rows[x].date)
                    IN /\ Len(edges) = 1
                       /\ edges[1].close = Val(sync'.rows[x].close)
                       /\ edges[1].volume = Val(sync'.rows[x].volume)]_vars
    /\ [][(pl.pc = "prices" /\ pl'.stock_records # pl.stock_records) =>
            \A x \in 1..Len(pl'.rows) :
                LastOfPair(pl'.rows, x) =>
                    LET edges == PriceEdges(graph', pl'.rows[x].ticker, pl'.rows[x].date)
                    IN /\ Len(edges) = 1
                       /\ edges[1].open = Val(pl'.rows[x].open)
                       /\ edges[1].high = Val(pl'.rows[x].high)
                       /\ edges[1].low = Val(pl'.rows[x].low)
                       /\ edges[1].close = Val(pl'.rows[x].close)
                       /\ edges[1].volume = Val(pl'.rows[x].volume)
                       /\ edges[1].daily_change = Val(pl'.rows[x].daily_change)
                       /\ edges[1].volatility = Val(pl'.rows[x].volatility)]_vars

\* C13: a run with overwrite false never fetches a post that has a
\* sentiment; and when every post its filters match has one, the run is over
\* at once with status success and all three counters 0, no post fetched, no
\* classifier call, and none of its steps changes the graph.
C13_ScoredPostsSkipped ==
    /\ [](log.selected_scored = {})
    /\ [](log.nothing_missing =>
            /\ wf.pc = "done"
            /\ wf.tweets = <<>>
            /\ wf.result = [status |-> "success", tweets_processed |-> 0,
                            tweets_updated |-> 0, errors |-> 0]
            /\ log.batch_calls = 0)
    /\ [][(log'.nothing_missing /\ wf' # wf) => graph' = graph]_vars
\* such a run over a graph whose Posts all have a sentiment
C13_Witness ==
    /\ log.nothing_missing
    /\ wf.pc = "done"
    /\ Cardinality(TweetIds(graph)) >= 2
    /\ \A id \in TweetIds(graph) : ~IsNull(graph.tweets[id].sentiment)

C15_FetchErrorReported ==
    /\ [](log.fetch_raised =>
            /\ wf.pc = "done"
            /\ wf.result.status = "error"
            /\ wf.result.tweets_processed = 0
            /\ wf.tweets = <<>>
            /\ log.batch_calls = 0)
    /\ [][(log'.fetch_raised /\ wf' # wf) => graph' = graph]_vars
\* the fetch raised over a graph that holds a Post without sentiment
C15_Witness ==
    /\ log.fetch_raised
    /\ log.fetch_calls = 1
    /\ \E id \in TweetIds(graph) :
          IsNull(graph.tweets[id].sentiment) /\ ~EmptyText(graph.tweets[id].text)

\* C16: when get_hf_service raised, and whenever the real service was asked
\* for without any key, the run is over with status error and
\* tweets_processed 0, no fetch query was issued, nothing fetched, no
\* classifier call, and the step leaves the graph as it was.
C16_NoCredentialReported ==
    /\ []((log.init_raised \/ log.no_credential) =>
            /\ wf.pc = "done"
            /\ wf.result.status = "error"
            /\ wf.result.tweets_processed = 0
            /\ log.fetch_calls = 0
            /\ wf.tweets = <<>>
            /\ log.batch_calls = 0)
    /\ [][((log'.init_raised \/ log'.no_credential) /\ wf' # wf) => graph' = graph]_vars
\* the real service, no key in the call or in the environment, over a graph
\* that holds a Post without sentiment
C16_Witness ==
    /\ log.no_credential
    /\ log.init_raised
    /\ wf.service = "hf"
    /\ IsNull(hf_token)
    /\ \E id \in TweetIds(graph) :
          IsNull(graph.tweets[id].sentiment) /\ ~EmptyText(graph.tweets[id].text)

\* the current pipeline run found one of its two files missing
FileMissing(p) == ~(p.found.stocks /\ p.found.social)

C18_ChunkFailureContinues ==
    [][(pl.pc \in {"prices", "posts"} /\ pl.chunk_size >= 1 /\ pl' # pl) =>
          pl'.pc \in {"prices", "posts", "enrich"}]_vars

\* d lies between the two timestamps, both included
Between(d, start_date, end_date) ==
    /\ d[1] > start_date[1] \/ (d[1] = start_date[1] /\ d[2] >= start_date[2])
    /\ d[1] < end_date[1] \/ (d[1] = end_date[1] /\ d[2] <= end_date[2])

\* the rows of a part of the price file that the request of the current
\* pipeline run asks for
Requested(part) ==
    SelectSeq(part, LAMBDA row :
        /\ row.Stock = pl.stock
        /\ row.Date.fmt # "bad"
        /\ Between(<<row.Date.day, row.Date.time>>, pl.start_date, pl.end_date))

\* C19: a step of price ingestion builds one row for each row of its chunk
\* with the requested ticker and a date that parses and lies in the window,
\* bounds included, in file order, and no other; these rows are what the
\* store receives, prices_synced grows by their number, and after the price
\* phase it is the number of such rows in the file.
C19_PriceRowsFiltered ==
    /\ [][(pl.pc = "prices" /\ pl.chunk_size >= 1 /\ pl.pos < Len(stocks_csv) /\ pl' # pl) =>
            LET expected == Requested(Chunk(stocks_csv, pl.pos, pl.chunk_size))
            IN /\ Len(pl'.rows) = Len(expected)
               /\ \A x \in 1..Len(expected) :
                     /\ pl'.rows[x].ticker = expected[x].Stock
                     /\ pl'.rows[x].date = <<expected[x].Date.day>>
                     /\ pl'.rows[x].open = expected[x].Open
                     /\ pl'.rows[x].close = expected[x].Close
                     /\ pl'.rows[x].volume = expected[x].Volume
               /\ pl'.pos # pl.pos =>
                     /\ graph' = StockUpsert(graph, pl'.rows)
                     /\ pl'.stock_records = pl.stock_records + Len(expected)
               /\ pl'.pos = pl.pos => graph' = graph]_vars
    /\ [](pl.pc \in {"posts", "enrich", "await"} =>
            pl.stock_records = Len(Requested(stocks_csv)))
\* the row dated on the last day of the window went in, the one of the day
\* after did not
C19_Witness ==
    /\ pl.pc = "posts"
    /\ pl.stock = "X"
    /\ pl.end_date = <<1, Midnight>>
    /\ pl.stock_records = 1
    /\ <<"X", <<1>>>> \in DOMAIN graph.price_on
    /\ <<"X", <<2>>>> \notin DOMAIN graph.price_on

\* C20: every row a step of price ingestion builds has daily_change and
\* volatility 0.0 when its open is 0, and (close - open) / open and
\* (high - low) / open otherwise; the rows of the chunk that the request asks
\* for are built whatever their open; and the ratio of any number to 0 is 0.0.
C20_ZeroOpenGuard ==
    /\ [][(pl.pc = "prices" /\ pl.chunk_size >= 1 /\ pl.pos < Len(stocks_csv) /\ pl' # pl) =>
            /\ \A x \in 1..Len(pl'.rows) :
                  LET row == pl'.rows[x]
                  IN IF row.open = 0
                     THEN /\ row.daily_change[1] = 0 /\ row.daily_change[2] # 0
                          /\ row.volatility[1] = 0 /\ row.volatility[2] # 0
                     ELSE /\ row.daily_change = <<row.close - row.open, row.open>>
                          /\ row.volatility = <<row.high - row.low, row.open>>
            /\ Len(pl'.rows) = Len(Requested(Chunk(stocks_csv, pl.pos, pl.chunk_size)))]_vars
    /\ [](\A a \in (0 - 3)..3 : Ratio(a, 0)[1] = 0 /\ Ratio(a, 0)[2] # 0)
\* the row with open 0 was built and stored with both ratios 0.0
C20_Witness ==
    /\ pl.pc = "prices"
    /\ \E x \in 1..Len(pl.rows) : pl.rows[x].open = 0 /\ pl.rows[x].close # 0
    /\ \E k \in 1..Len(PriceEdges(graph, "X", <<2>>)) :
          LET bar == PriceEdges(graph, "X", <<2>>)[k]
          IN bar.open = Val(0) /\ Get(bar.daily_change)[1] = 0 /\ Get(bar.volatility)[1] = 0

\* C21: the fetch query of an enrichment run is sent with the end date
\* followed by T23:59:59 when the caller gave a bare calendar date, with the
\* end date as given when it carries a time part, and with the start date as
\* given.
C21_EndDateWidened ==
    (log.fetch_calls = 1 /\ log.call # NoCall) =>
        /\ (~IsNull(log.call.end_date) /\ Len(Get(log.call.end_date)) = 1) =>
                log.params.end_date = Val(<<Get(log.call.end_date)[1], EndOfDay>>)
        /\ (~IsNull(log.call.end_date) /\ Len(Get(log.call.end_date)) = 2) =>
                log.params.end_date = log.call.end_date
        /\ (~IsNull(log.call.start_date) /\ Get(log.call.start_date) # StrEmpty) =>
                log.params.start_date = log.call.start_date

\* C22: after a step of post ingestion, by dataset_to_graph or by
\* import_social, the Post of every ingested row whose source has a Sentiment
\* value holds that same number as its sentiment.
C22_SentimentKeptFractional ==
    /\ [][(pl.pc = "posts" /\ pl'.tweet_records # pl.tweet_records) =>
            LET source == FilteredRows(Chunk(pl.social_csv.rows, pl.pos, pl.chunk_size),
                                       pl.stock, pl.start_date, pl.end_date)
            IN \A x \in 1..Len(source) :
                  ("Sentiment" \in pl.social_csv.cols /\ ~IsNull(source[x].Sentiment)) =>
                      graph'.tweets[pl'.rows[x].tweet_id].sentiment = source[x].Sentiment]_vars
    /\ [][(imported' # imported /\ imported'.status = "success") =>
            \A x \in 1..Len(imported'.source) :
                ("Sentiment" \in imported'.cols /\ ~IsNull(imported'.source[x].Sentiment)) =>
                    graph'.tweets[imported'.rows[x].tweet_id].sentiment
                        = imported'.source[x].Sentiment]_vars

\* C23: every call of batch_analyze_sentiment on the real service returns as
\* many results as it was given texts, whatever the remote end answers.
C23_OneResultPerText ==
    [][(wf.pc = "classify" /\ wf.service = "hf" /\ wf' # wf) =>
          Len(log'.results) = Len(wf.tweet_ids)]_vars

\* C24: a call of get_hf_service without a credential returns the cached
\* default when there is one, and builds and caches one only when there is
\* none; a call with a credential builds an instance of its own, is never
\* handed the cached one, and leaves the cache as it was; and a cached
\* default is never dropped.
C24_DefaultServiceCached ==
    /\ [][(wf.pc = "idle" /\ wf' # wf /\ wf'.service = "hf" /\ log'.handed # NotHanded) =>
            IF log'.call.keyed
            THEN /\ log'.handed.from \in {"built", "raised"}
                 /\ ~log'.handed.assigned
                 /\ default_service' = default_service
            ELSE IF default_service
            THEN /\ log'.handed = [from |-> "cache", assigned |-> FALSE]
                 /\ default_service'
            ELSE /\ log'.handed.from \in {"built", "raised"}
                 /\ log'.handed.assigned <=> log'.handed.from = "built"
                 /\ default_service' <=> log'.handed.from = "built"]_vars
    /\ [][default_service => default_service']_vars
\* a run was handed the cached default, which an earlier call built
C24_Witness ==
    /\ wf.service = "hf"
    /\ log.handed.from = "cache"
    /\ default_service

\* the batches of the current run that the loop has left behind
BatchesDone == wf.i \div wf.valid_batch_size

\* C25: in one run each post is carried by at most one batch call and gets
\* at most one analyze_sentiment call of the workflow, and only if the batch
\* call of its batch raised; there are never more batch calls than batches
\* begun; and once the per-item attempt on a post failed, no later step
\* sends that post to the classifier.
C25_FallbackOneShot ==
    /\ [](\A x \in Posts :
            /\ log.sent[x] - log.singles[x] <= 1
            /\ log.singles[x] <= 1
            /\ log.singles[x] = 1 => x \in log.batch_raised)
    /\ [](wf.pc \in {"batch", "classify"} => log.batch_calls <= BatchesDone)
    /\ [](wf.pc \in {"update", "fallback"} => log.batch_calls <= BatchesDone + 1)
    /\ [][(wf.pc \in {"batch", "classify", "update", "fallback"} /\ wf'.tweets = wf.tweets) =>
            \A x \in log.item_raised \cup (log.remote_failed \cap log.batch_raised) :
                log'.sent[x] = log.sent[x]]_vars
\* a finished run in which the batch call of one post raised and then its
\* per-item call raised, next to a post that only its batch call carried
C25_Witness ==
    /\ RunDone
    /\ \E x, y \in Posts :
          /\ x \in log.item_raised
          /\ log.singles[x] = 1 /\ log.sent[x] = 2
          /\ log.singles[y] = 0 /\ log.sent[y] = 1

\* C26: a run of dataset_to_graph goes through its price phase, its post
\* phase and enrichment in that order: a price step touches no Post, a post
\* step touches no price edge, each phase reads its file chunk after chunk to
\* its end before the next phase starts, the workflow is idle until the post
\* phase is over and is called once, with the ticker of the request and the
\* calendar dates of the two bounds of the ingestion window.
C26_PhasesInOrder ==
    /\ [][pl' # pl =>
            /\ pl.pc = "idle" => pl'.pc \in {"prices", "done"}
            /\ pl.pc = "prices" =>
                  /\ pl'.pc \in {"prices", "posts", "done"}
                  /\ pl'.pc = "prices" => pl'.pos = pl.pos + pl.chunk_size
                  /\ pl'.pc = "posts" => (pl.pos >= Len(stocks_csv) /\ pl'.pos = 0)
                  /\ graph'.tweets = graph.tweets
                  /\ graph'.discusses = graph.discusses
                  /\ graph'.on_date = graph.on_date
            /\ pl.pc = "posts" =>
                  /\ pl'.pc \in {"posts", "enrich", "done"}
                  /\ pl'.pc = "posts" => pl'.pos = pl.pos + pl.chunk_size
                  /\ pl'.pc = "enrich" => pl.pos >= Len(pl.social_csv.rows)
                  /\ graph'.price_on = graph.price_on
                  /\ pl'.stock_records = pl.stock_records
            /\ pl.pc = "enrich" =>
                  /\ pl'.pc = "await"
                  /\ graph' = graph
                  /\ wf'.caller = "pipeline"
                  /\ log'.call = [stock |-> Val(pl.stock),
                                  start_date |-> Val(<<pl.start_date[1]>>),
                                  end_date |-> Val(<<pl.end_date[1]>>),
                                  batch_size |-> 100, keyed |-> FALSE]
            /\ pl.pc = "await" =>
                  /\ pl'.pc = "done"
                  /\ pl'.status = "success"
                  /\ pl'.sentiment_processing = wf.result
                  /\ pl'.stock_records = pl.stock_records
                  /\ pl'.tweet_records = pl.tweet_records]_vars
    /\ [](pl.pc \in {"prices", "posts", "enrich"} => wf.pc = "idle")
    /\ [](wf.caller = "pipeline" <=> pl.pc = "await")
    /\ []((pl.pc = "done" /\ pl.status = "success") => pl.sentiment_processing # NoResult)
\* a run that read both files one row at a time, ingested prices and posts
\* and enriched a post has returned its summary
C26_Witness ==
    /\ pl.pc = "done"
    /\ pl.status = "success"
    /\ pl.chunk_size = 1
    /\ pl.stock_records >= 2
    /\ pl.tweet_records >= 2
    /\ pl.sentiment_processing.tweets_processed >= 1

\* the run has fetched posts and its loop has not started
LoopAtStart == wf.pc = "batch" /\ wf.i = 0

\* C27: the loop of a run works with batch size 1 when the caller asked for
\* less than 1, 100 when it asked for more than 100, and the size asked for
\* otherwise; each batch is the slice of the fetched posts that starts where
\* the previous one ended and has that many posts or what is left of the
\* list, its texts go to the classifier in fetch order, and a batch call
\* carries at least 1 and at most 100 texts.
C27_BatchSizeClamped ==
    /\ [](LoopAtStart =>
            wf.valid_batch_size =
                IF log.call.batch_size < 1 THEN 1
                ELSE IF log.call.batch_size > 100 THEN 100
                ELSE log.call.batch_size)
    /\ [](wf.pc \in {"batch", "classify", "update", "fallback"} =>
            /\ wf.valid_batch_size \in 1..100
            /\ wf.i % wf.valid_batch_size = 0)
    /\ [](wf.pc = "classify" =>
            /\ Len(wf.tweet_ids) \in 1..100
            /\ Len(wf.tweet_ids) <= wf.valid_batch_size
            /\ \A j \in 1..Len(wf.tweet_ids) :
                  /\ wf.tweet_ids[j] > wf.i
                  /\ wf.tweet_ids[j] <= wf.i + wf.valid_batch_size
                  /\ wf.tweet_ids[j] <= Len(wf.tweets)
                  /\ j > 1 => wf.tweet_ids[j - 1] < wf.tweet_ids[j]
            /\ \A x \in Posts :
                  (x > wf.i /\ x <= wf.i + wf.valid_batch_size /\ ~EmptyText(wf.tweets[x].text))
                      => \E j \in 1..Len(wf.tweet_ids) : wf.tweet_ids[j] = x)
    /\ [][(wf.pc \in {"batch", "classify", "update", "fallback"} /\ wf'.tweets = wf.tweets) =>
            /\ wf'.valid_batch_size = wf.valid_batch_size
            /\ wf'.i \in {wf.i, wf.i + wf.valid_batch_size}
            /\ wf'.pc = "done" => wf.i >= Len(wf.tweets)]_vars
\* sync_sentiments was asked for a batch size below 1 and starts its loop
\* over two posts or more with batches of one
C27_Witness ==
    /\ LoopAtStart
    /\ wf.caller = "sync"
    /\ log.call.batch_size < 1
    /\ wf.valid_batch_size = 1
    /\ Len(wf.tweets) >= 2

TopScore(items) ==
    CHOOSE c \in {items[k].score : k \in 1..Len(items)} :
        \A m \in 1..Len(items) : items[m].score <= c

\* C29: whenever POST /analyze answers from a remote answer, the sentiment is
\* 1 exactly when the first item of highest score is labelled positive in any
\* letter case and that score is at least 0.5, and 0 otherwise; the confidence
\* is that highest score; an answer that is not a list, or an empty list,
\* gives 0 and 0.0.
C29_PositiveAtThreshold ==
    (analysis.status = "ok" /\ ~analysis.remote.raised) =>
        LET items == analysis.remote.answer.items
        IN IF analysis.remote.answer.isList /\ Len(items) > 0
           THEN LET first == CHOOSE k \in 1..Len(items) :
                                /\ items[k].score = TopScore(items)
                                /\ \A m \in 1..(k - 1) : items[m].score # TopScore(items)
                    positive == items[first].label \in {"positive", "Positive", "POSITIVE"}
                IN /\ analysis.confidence = TopScore(items)
                   /\ analysis.sentiment \in {Zero, One}
                   /\ analysis.sentiment = One <=> (positive /\ TopScore(items) >= Threshold)
           ELSE analysis.sentiment = Zero /\ analysis.confidence = Zero
\* an answer whose highest item is positive at exactly 0.5, written with a
\* capital, ahead of a lower negative item, is answered as 1 with 0.5
C29_Witness ==
    /\ analysis.status = "ok"
    /\ analysis.remote = Answered(AList(<<[label |-> "Positive", score |-> 5],
                                          [label |-> "negative", score |-> 4]>>))
    /\ analysis.sentiment = One
    /\ analysis.confidence = Threshold

\* the positions, in the fetched list, of the posts of the current batch that
\* have a text
BatchWithText(w) ==
    {x \in (w.i + 1)..(w.i + w.valid_batch_size) :
        x <= Len(w.tweets) /\ ~IsNull(w.tweets[x].text) /\ w.tweets[x].text # Val("")}

\* the j-th smallest member of a set of positions
Nth(S, j) == CHOOSE x \in S : Cardinality({y \in S : y < x}) = j - 1

\* C30: on the batch path the j-th update carries the id of the j-th post of
\* the batch that has a text, with the sentiment and confidence of the j-th
\* result, for as many results as there are such posts; and the store call
\* changes no Tweet other than those, each to the pair of its own update.
C30_ResultsPairedInOrder ==
    /\ [][(wf.pc = "classify" /\ wf'.pc = "update") =>
            /\ Len(wf'.batch_updates)
                  = Min(Len(log'.results), Cardinality(BatchWithText(wf)))
            /\ \A j \in 1..Len(wf'.batch_updates) :
                  /\ wf'.batch_updates[j].id = wf.tweets[Nth(BatchWithText(wf), j)].id
                  /\ wf'.batch_updates[j].sentiment = log'.results[j].sentiment
                  /\ wf'.batch_updates[j].confidence = log'.results[j].confidence]_vars
    /\ [][(wf.pc = "update" /\ wf' # wf /\ graph' # graph) =>
            /\ TweetIds(graph') = TweetIds(graph)
            /\ \A id \in TweetIds(graph) :
                  \/ graph'.tweets[id] = graph.tweets[id]
                  \/ \E j \in 1..Cardinality(BatchWithText(wf)) :
                        /\ j <= Len(log.results)
                        /\ wf.tweets[Nth(BatchWithText(wf), j)].id = id
                        /\ graph'.tweets[id] =
                              [graph.tweets[id] EXCEPT
                                  !.sentiment = Val(log.results[j].sentiment),
                                  !.confidence = Val(log.results[j].confidence)]]_vars
\* a batch of three posts, the first without text, was answered with two
\* different results, and the second and third post hold them in that order
C30_Witness ==
    /\ wf.pc = "batch"
    /\ wf.i >= 3
    /\ wf.valid_batch_size >= 3
    /\ Len(wf.tweets) = 3
    /\ EmptyText(wf.tweets[1].text)
    /\ log.writes[2] = 1 /\ log.writes[3] = 1
    /\ wf.tweets[2].id \in TweetIds(graph) /\ wf.tweets[3].id \in TweetIds(graph)
    /\ graph.tweets[wf.tweets[2].id].sentiment = Val(One)
    /\ graph.tweets[wf.tweets[3].id].sentiment = Val(Zero)

====
